---- MODULE Spec2Model ----
(***************************************************************************)
(* Model of the imageboost-seo compression-and-cache engine:               *)
(*   app/utils/firebaseStorage.server.js   cache store, original archive   *)
(*   app/utils/sharpCompression.server.js  engine A (sharp)                *)
(*   app/utils/imageCompression.server.js  engine B (tinify)               *)
(*   app/routes/api.compress-images.jsx    batch-compress action           *)
(*   app/routes/api.revert-image.jsx       revert action                   *)
(*   app/routes/app.seo-audits.jsx         loader calling findStoredImage  *)
(*                                                                         *)
(* A request handler is a process; one action of the model is the code     *)
(* that runs between two awaits of a handler.  URLs are sequences of       *)
(* tokens, so that splitting at "?" and at "/o/" is computed.  JavaScript  *)
(* objects are records whose domain is the set of fields present; null    *)
(* and undefined are the record with no field.                             *)
(***************************************************************************)
EXTENDS Integers, Sequences, FiniteSets, TLC

VARIABLES
  docs,      \* Firestore collection compressedImages: a set of documents
  blobs,     \* storage bucket: the set of object paths that exist
  originals, \* Firestore collection originalImages: a set of documents
  live,      \* image ids currently live at the origin platform
  nextId,    \* source of fresh uuids / document ids
  proc,      \* per request handler: its position and its local variables
  hist       \* history: what completed compresses returned (for the properties)

vars == <<docs, blobs, originals, live, nextId, proc, hist>>

----------------------------------------------------------------------------
(* Bounds of the model *)

\* longest URL list of one batch request
MaxBatch == 2
\* number of uuids the stores may hand out in one run
MaxIds == 2
\* the same for a series of requests about one image
MaxIdsSeries == 3

Procs == {"r1", "r2"}

\* the submitted URLs: two spellings of one image and a second image
SourceUrls == {<<"a.jpg">>, <<"a.jpg", "?", "v=1">>, <<"b.png">>}
\* bytes served at a URL: the query component does not change the image
SourceSize(url) == IF url[1] = "a.jpg" THEN 100 ELSE 200
\* sizes an encoder may produce from an original: half of it, three times it
EncodedSizes(originalSize) == {originalSize \div 2, 3 * originalSize}
PutUrls == {<<"a.jpg">>}
ProductIds == {"p1"}
ImageIds == {"i1"}
Strategies == {"sharp", "tinify"}
\* the values of the form field 'strategy': the two engines, one that names
\* neither, and "" for a request without the field
SubmittedStrategies == Strategies \cup {"auto", ""}

----------------------------------------------------------------------------
(* JavaScript objects *)

Null == <<>>
IsNull(o) == DOMAIN o = {}
Has(o, f) == f \in DOMAIN o
Get(o, f, dflt) == IF f \in DOMAIN o THEN o[f] ELSE dflt
\* { ...base, ...over }: the later spread wins
Spread(base, over) == over @@ base
\* xs[i] of a JavaScript array, "" standing for undefined
At(xs, i) == IF i \in 1..Len(xs) THEN xs[i] ELSE ""

----------------------------------------------------------------------------
(* URLs *)

HasToken(s, t) == \E i \in 1..Len(s) : s[i] = t
FirstIndex(s, t) == CHOOSE i \in 1..Len(s) : s[i] = t /\ \A j \in 1..(i-1) : s[j] # t

\* s.split(t)[0]
SplitHead(s, t) == IF HasToken(s, t) THEN SubSeq(s, 1, FirstIndex(s, t) - 1) ELSE s
\* s.split(t)[1] || ''
SplitSecond(s, t) ==
  IF HasToken(s, t)
  THEN SplitHead(SubSeq(s, FirstIndex(s, t) + 1, Len(s)), t)
  ELSE <<>>

\* the URL taken as its own key
canonicalKeepsQuery(url) == url

canonical(url) == IF url # <<>> THEN SplitHead(url, "?") ELSE url

encodeURIComponent(s) == [i \in 1..Len(s) |-> IF s[i] = "/" THEN "%2F" ELSE s[i]]
decodeURIComponent(s) == [i \in 1..Len(s) |-> IF s[i] = "%2F" THEN "/" ELSE s[i]]

\* new URL(u).pathname: what precedes the query component
pathname(u) == SplitHead(u, "?")

compressedFileName(n, fmt) == <<"compressed", "/", ToString(n), ".", fmt>>
originalFileName(n, fmt) == <<"original", "/", ToString(n), ".", fmt>>
downloadUrl(fileName, n) ==
  <<"https://firebasestorage.googleapis.com/v0/b/bucket", "/o/">>
    \o encodeURIComponent(fileName)
    \o <<"?", "alt=media&token=" \o ToString(n)>>
legacyPublicUrl(fileName) ==
  <<"https://storage.googleapis.com/bucket", "/">> \o fileName

\* decodeURIComponent(url.pathname.split('/o/')[1] || '').split('?')[0]
derivedStoragePath(compressedUrl) ==
  SplitHead(decodeURIComponent(SplitSecond(pathname(compressedUrl), "/o/")), "?")

normalizedFormat(format) == IF format = "jpeg" THEN "jpg" ELSE format

----------------------------------------------------------------------------
(* Process state *)

IdleProc ==
  [pc |-> "idle", kind |-> "none",
   urls |-> <<>>, strategy |-> "", productIds |-> <<>>, imageIds |-> <<>>,
   tinifyKey |-> FALSE, read |-> "nothing", hasToken |-> FALSE,
   i |-> 0, results |-> <<>>,
   url |-> <<>>, imageId |-> "", doc |-> Null, path |-> <<>>,
   src |-> 0, result |-> Null, meta |-> Null, file |-> 0,
   push |-> Null, create |-> "", original |-> Null,
   calls |-> <<>>, liveAtStart |-> {}, resp |-> Null]

\* The session and the identifier fields of a request are fixed when it is
\* submitted.  A session without access token comes with identifiers for every
\* item: the handler then never looks at them.  The model draws them when the handler first reads them (at the
\* first origin swap it considers), which allows the same behaviours: "read"
\* tells how much of them the handler has looked at.
SessionInputs ==
  {[read |-> "session", hasToken |-> FALSE,
    productIds |-> [j \in 1..MaxBatch |-> CHOOSE x \in ProductIds : TRUE],
    imageIds |-> [j \in 1..MaxBatch |-> CHOOSE x \in ImageIds : TRUE]]}
  \cup {[read |-> "form", hasToken |-> TRUE, productIds |-> ps, imageIds |-> is] :
          ps \in UNION {[1..m -> ProductIds] : m \in 0..MaxBatch},
          is \in UNION {[1..m -> ImageIds] : m \in 0..MaxBatch}}
Inputs(pr) ==
  IF pr.read = "nothing"
  THEN SessionInputs
  ELSE {[read |-> pr.read, hasToken |-> pr.hasToken,
         productIds |-> pr.productIds, imageIds |-> pr.imageIds]}
Reveal(pr, inp) ==
  [pr EXCEPT !.read = inp.read, !.hasToken = inp.hasToken,
             !.productIds = inp.productIds, !.imageIds = inp.imageIds]

\* the handler returned: its response, and what the properties read of the request
Respond(pr, resp) ==
  [IdleProc EXCEPT !.pc = "done", !.kind = pr.kind, !.urls = pr.urls,
     !.url = pr.url, !.strategy = pr.strategy, !.tinifyKey = pr.tinifyKey,
     !.results = pr.results,
     !.calls = pr.calls, !.liveAtStart = pr.liveAtStart, !.resp = resp]

Keys == {canonical(u) : u \in SourceUrls}

Init ==
  /\ docs = {}
  /\ blobs = {}
  /\ originals = {}
  /\ live = ImageIds
  /\ nextId = 1
  /\ proc = [p \in Procs |-> IdleProc]
  /\ hist = [k \in Keys |-> Null]

----------------------------------------------------------------------------
(* Batch aggregation and the per-item results of the batch-compress action *)

\* a fraction num/den, as the code's 1 - (compressed / original)
Savings(originalSize, compressedSize) ==
  [num |-> originalSize - compressedSize, den |-> originalSize]
ZeroSavings == [num |-> 0, den |-> 1]

RECURSIVE SumField(_, _)
SumField(rs, f) ==
  IF rs = <<>> THEN 0 ELSE Get(Head(rs), f, 0) + SumField(Tail(rs), f)

\* results.filter(r => r.success)
Successful(rs) == SelectSeq(rs, LAMBDA r : Get(r, "success", FALSE))

\* parseFloat(x.toFixed(2)) of x = (1 - c/o) * 100, in hundredths of a percent
RoundedPercent(o, c) ==
  LET n == (o - c) * 10000
      a == IF n < 0 THEN -n ELSE n
      q == (2 * a + o) \div (2 * o)
  IN IF n < 0 THEN -q ELSE q

CompleteResponse(results, strategy) ==
  LET successful == Successful(results)
      totalOriginalSize == SumField(successful, "originalSize")
      totalCompressedSize == SumField(successful, "compressedSize")
  IN [type |-> "complete",
      results |-> results,
      totalProcessed |-> Len(results),
      totalSuccessful |-> Len(successful),
      totalErrors |-> Len(results) - Len(successful),
      strategyUsed |-> strategy,
      totalOriginalSize |-> totalOriginalSize,
      totalCompressedSize |-> totalCompressedSize,
      totalSavings |-> IF totalOriginalSize > 0
                       THEN RoundedPercent(totalOriginalSize, totalCompressedSize)
                       ELSE 0]

\* the local variables of one loop iteration
ItemLocals(pr) ==
  [pr EXCEPT !.doc = Null, !.path = <<>>, !.src = 0, !.result = Null,
             !.meta = Null, !.file = 0, !.push = Null, !.create = ""]

\* the loop goes on to the next item without having pushed the result
AdvanceWithoutPush(pr, r) ==
  IF pr.i = Len(pr.urls)
  THEN LET pushed == [pr EXCEPT !.results = Append(pr.results, r)]
       IN Respond(pushed, CompleteResponse(pushed.results, pr.strategy))
  ELSE [ItemLocals(pr) EXCEPT !.pc = "fsi_query",
          !.i = pr.i + 1, !.url = pr.urls[pr.i + 1], !.imageId = ""]

\* results.push(r), then the loop's next iteration up to its first await
\* (the query of findStoredImage), or the response after the last item
Advance(pr, r) ==
  LET pushed == [pr EXCEPT !.results = Append(pr.results, r)]
  IN IF pr.i = Len(pr.urls)
     THEN Respond(pushed, CompleteResponse(pushed.results, pr.strategy))
     ELSE [ItemLocals(pushed) EXCEPT !.pc = "fsi_query",
             !.i = pr.i + 1, !.url = pr.urls[pr.i + 1], !.imageId = ""]

\* the result pushed for a cache hit
CacheHitResult(pr, storedImage) ==
  LET originalSize == Get(storedImage, "originalSize", 0)
      size == Get(storedImage, "size", 0)
      base == [url |-> pr.url,
               success |-> TRUE,
               originalSize |-> originalSize,
               compressedSize |-> size,
               savings |-> IF originalSize # 0
                           THEN Savings(originalSize, size) ELSE ZeroSavings,
               format |-> Get(storedImage, "format", "webp"),
               fromCache |-> TRUE]
  IN IF Has(storedImage, "url")
     THEN Spread(base, [compressedUrl |-> storedImage.url])
     ELSE base

\* the item is compressed whatever the cache check returned
CacheCheckedCompressesAnyway(pr, storedImage) ==
  [pr EXCEPT !.pc = "fetch"]

\* after findStoredImage returned to the batch loop
CacheChecked(pr, storedImage) ==
  IF ~IsNull(storedImage)
  THEN Advance(pr, CacheHitResult(pr, storedImage))
  ELSE [pr EXCEPT !.pc = "fetch"]

\* findStoredImage returns to its caller
Found(pr, ret) ==
  IF pr.kind = "batch"
  THEN CacheChecked(pr, ret)
  ELSE Respond(pr, [found |-> ret])

----------------------------------------------------------------------------
(* History kept for the properties: what the latest compress that stored an *)
(* artifact returned for each canonical key, whether that compress followed *)
(* a lookup that found the key's record without its blob ("recovered"), and *)
(* whether a revert of the key has succeeded since ("reverted").            *)

IsStoredResult(r) == Has(r, "storedFormat")

\* the lookup of the item had selected a record whose blob is gone
AfterStaleMiss(pr) ==
  /\ Has(pr.doc, "storageMetadata")
  /\ Has(pr.doc.storageMetadata, "storagePath")
  /\ pr.doc.storageMetadata.storagePath \notin blobs

HistAfter(old, new) ==
  IF Len(new.results) = Len(old.results) + 1
       /\ IsStoredResult(new.results[Len(new.results)])
  THEN LET r == new.results[Len(new.results)]
           k == canonical(r.url)
       IN [hist EXCEPT ![k] = [compressedUrl |-> r.compressedUrl,
                               originalSize |-> r.originalSize,
                               recovered |-> /\ AfterStaleMiss(old)
                                             /\ derivedStoragePath(r.compressedUrl) \in blobs,
                               reverted |-> FALSE]]
  ELSE IF new.kind = "revert" /\ new.pc = "done"
            /\ Get(new.resp, "type", "") = "reverted"
            /\ ~IsNull(hist[canonical(new.url)])
  THEN [hist EXCEPT ![canonical(new.url)].reverted = TRUE]
  ELSE hist

Step(p, new) ==
  /\ proc' = [proc EXCEPT ![p] = new]
  /\ hist' = HistAfter(proc[p], proc'[p])

----------------------------------------------------------------------------
(* findStoredImage(originalUrl, imageId) *)

MatchBy(field, value) == {d \in docs : Has(d, field) /\ d[field] = value}

storagePathOf(data) ==
  IF Has(data, "storageMetadata") /\ Has(data.storageMetadata, "storagePath")
  THEN data.storageMetadata.storagePath
  ELSE <<>>

\* a record was selected: determine the storage path to verify
Selected(pr, doc) ==
  LET recorded == storagePathOf(doc)
      derived == IF Has(doc, "compressedUrl")
                 THEN derivedStoragePath(doc.compressedUrl) ELSE <<>>
  IN IF recorded # <<>>
     THEN [pr EXCEPT !.doc = doc, !.path = recorded, !.pc = "fsi_exists"]
     ELSE IF derived # <<>>
     THEN [pr EXCEPT !.doc = doc, !.path = derived, !.pc = "fsi_backfill"]
     ELSE [pr EXCEPT !.doc = doc, !.pc = "fsi_delete"]

\* the canonical key is queried before the external image id
FsiQueryKeyFirst(p) ==
  LET pr == proc[p]
      canonicalUrl == canonical(pr.url)
      byId == IF pr.imageId # "" THEN MatchBy("shopifyImageId", pr.imageId) ELSE {}
      snapshot == MatchBy("originalUrl", canonicalUrl)
      byShopifyUrl == MatchBy("shopifyCompressedUrl", canonicalUrl)
      fallback == MatchBy("compressedUrl", canonicalUrl)
  IN /\ pr.pc = "fsi_query"
     /\ UNCHANGED <<docs, blobs, originals, live, nextId>>
     /\ \/ Step(p, Found(pr, Null))
        \/ IF snapshot # {}
           THEN \E doc \in snapshot : Step(p, Selected(pr, doc))
           ELSE IF byId # {}
           THEN \E doc \in byId : Step(p, Found(pr, doc))
           ELSE IF byShopifyUrl # {}
           THEN \E doc \in byShopifyUrl : Step(p, Found(pr, doc))
           ELSE IF fallback # {}
           THEN \E doc \in fallback : Step(p, Selected(pr, doc))
           ELSE Step(p, Found(pr, Null))

\* the queries of findStoredImage, in their order of precedence
FsiQuery(p) ==
  LET pr == proc[p]
      canonicalUrl == canonical(pr.url)
      byId == IF pr.imageId # "" THEN MatchBy("shopifyImageId", pr.imageId) ELSE {}
      snapshot == MatchBy("originalUrl", canonicalUrl)
      byShopifyUrl == MatchBy("shopifyCompressedUrl", canonicalUrl)
      fallback == MatchBy("compressedUrl", canonicalUrl)
  IN /\ pr.pc = "fsi_query"
     /\ UNCHANGED <<docs, blobs, originals, live, nextId>>
     /\ \/ Step(p, Found(pr, Null))           \* a query failed: catch, return null
        \/ IF byId # {}
           THEN \E doc \in byId : Step(p, Found(pr, doc))
           ELSE IF snapshot # {}
           THEN \E doc \in snapshot : Step(p, Selected(pr, doc))
           ELSE IF byShopifyUrl # {}
           THEN \E doc \in byShopifyUrl : Step(p, Found(pr, doc))
           ELSE IF fallback # {}
           THEN \E doc \in fallback : Step(p, Selected(pr, doc))
           ELSE Step(p, Found(pr, Null))

\* set() without merge: the document is replaced by the fields that are written
SetOverwrites(id, data, derived) ==
  LET written == [id |-> id,
                  storageMetadata |->
                    Spread(Get(data, "storageMetadata", Null), [storagePath |-> derived])]
  IN {IF d.id = id THEN written ELSE d : d \in docs} \cup {written}

\* doc.ref.set({_storageMetadata: {..., storagePath: derived}}, {merge: true})
SetMerge(id, data, derived) ==
  LET merged == [storageMetadata |->
                   Spread(Get(data, "storageMetadata", Null), [storagePath |-> derived])]
  IN IF \E d \in docs : d.id = id
     THEN {IF d.id = id THEN Spread(d, merged) ELSE d : d \in docs}
     ELSE docs \cup {Spread([id |-> id], merged)}

FsiBackfill(p) ==
  LET pr == proc[p]
  IN /\ pr.pc = "fsi_backfill"
     /\ docs' = SetMerge(pr.doc.id, pr.doc, pr.path)
     /\ Step(p, [pr EXCEPT !.pc = "fsi_exists"])
     /\ UNCHANGED <<blobs, originals, live, nextId>>

\* the value returned on a verified hit: { id, url: data.compressedUrl, ...data }
VerifiedHit(doc) ==
  IF Has(doc, "compressedUrl")
  THEN Spread([url |-> doc.compressedUrl], doc)
  ELSE doc

\* bucket.file(storagePath).exists()
FsiExists(p) ==
  LET pr == proc[p]
  IN /\ pr.pc = "fsi_exists"
     /\ UNCHANGED <<docs, blobs, originals, live, nextId>>
     /\ \/ Step(p, [pr EXCEPT !.pc = "fsi_delete"])    \* the check threw
        \/ IF pr.path \in blobs
           THEN Step(p, Found(pr, VerifiedHit(pr.doc)))
           ELSE Step(p, [pr EXCEPT !.pc = "fsi_delete"])

\* the lookup starts over after the check of the blob, the record kept
FsiDeleteRetries(p) ==
  LET pr == proc[p]
  IN /\ pr.pc = "fsi_delete"
     /\ Step(p, [pr EXCEPT !.pc = "fsi_query"])
     /\ UNCHANGED <<docs, blobs, originals, live, nextId>>

\* doc.ref.delete(); return null
FsiDelete(p) ==
  LET pr == proc[p]
  IN /\ pr.pc = "fsi_delete"
     /\ docs' = {d \in docs : d.id # pr.doc.id}
     /\ Step(p, Found(pr, Null))
     /\ UNCHANGED <<blobs, originals, live, nextId>>


----------------------------------------------------------------------------
(* storeCompressedImage(imageBuffer, originalUrl, metadata) *)

\* the metadata the batch action passes for an engine result
BatchMetadata(pr, result) ==
  [originalSize |-> result.originalSize,
   compressionStrategy |-> pr.strategy,
   format |-> Get(result, "format", "webp")]

storedFormat(meta) == normalizedFormat(Get(meta, "format", "webp"))

\* the Firestore document written for a stored blob
docData(n, buffer, originalUrl, meta) ==
  LET fileName == compressedFileName(n, storedFormat(meta))
      first == [originalUrl |-> canonical(originalUrl),
                compressedUrl |-> downloadUrl(fileName, n),
                size |-> buffer.length,
                format |-> storedFormat(meta)]
      last == [id |-> "doc" \o ToString(n),
               storageMetadata |-> [storagePath |-> fileName,
                                    downloadToken |-> ToString(n)]]
  IN Spread(Spread(first, meta), last)

\* the descriptor returned: { id, url: publicUrl, ...cleanedMetadata }
storedDescriptor(n, meta) ==
  Spread([id |-> "doc" \o ToString(n),
          url |-> downloadUrl(compressedFileName(n, storedFormat(meta)), n)],
         meta)

\* a store failure reported as a failed item
StorageFailureAsFailed(pr) ==
  Spread(pr.result,
       [success |-> FALSE,
        error |-> "Failed to store compressed image",
        compressedUrl |-> pr.url,
        fromCache |-> FALSE,
        storageError |-> "Failed to store compressed image"])

\* the result pushed when the store threw
StorageFailureResult(pr) ==
  LET result == pr.result
  IN Spread(result,
       [savings |-> result.savings,
        compressedUrl |-> pr.url,
        fromCache |-> FALSE,
        storageError |-> "Failed to store compressed image"])

\* the result built after a successful store
ResultToPush(pr, storedImage) ==
  LET result == pr.result
  IN [url |-> pr.url,
      originalSize |-> result.originalSize,
      compressedSize |-> result.compressedSize,
      format |-> result.format,
      savings |-> result.savings,
      compressedUrl |-> storedImage.url,
      fromCache |-> FALSE,
      storedFormat |-> Get(result, "format", "webp")]

\* the swap is started for a product id whatever the session holds
StoredSwapsWithoutToken(pr, storedImage) ==
  IF pr.kind = "batch"
  THEN IF At(pr.productIds, pr.i) # ""
       THEN [pr EXCEPT !.pc = "create", !.push = ResultToPush(pr, storedImage)]
       ELSE Advance(pr, ResultToPush(pr, storedImage))
  ELSE Respond(pr, storedImage)

\* storeCompressedImage returned storedImage to its caller
Stored(pr, storedImage) ==
  IF pr.kind = "batch"
  THEN IF pr.hasToken /\ At(pr.productIds, pr.i) # ""
       THEN [pr EXCEPT !.pc = "create", !.push = ResultToPush(pr, storedImage)]
       ELSE Advance(pr, ResultToPush(pr, storedImage))
  ELSE Respond(pr, storedImage)

\* the put is tried again when the metadata write failed
StoreFailedRetries(pr) ==
  IF pr.pc = "add"
  THEN [pr EXCEPT !.pc = "save"]
  ELSE IF pr.kind = "batch"
  THEN Advance(pr, StorageFailureResult(pr))
  ELSE Respond(pr, [error |-> "Failed to store compressed image"])

\* storeCompressedImage threw
StoreFailed(pr) ==
  IF pr.kind = "batch"
  THEN Advance(pr, StorageFailureResult(pr))
  ELSE Respond(pr, [error |-> "Failed to store compressed image"])

\* file.save(imageBuffer, ...)
Save(p) ==
  LET pr == proc[p]
  IN /\ pr.pc = "save"
     /\ UNCHANGED <<docs, originals, live>>
     /\ \/ /\ blobs' = blobs \cup {compressedFileName(nextId, storedFormat(pr.meta))}
           /\ nextId' = nextId + 1
           /\ Step(p, [pr EXCEPT !.pc = "add", !.file = nextId])
        \/ /\ UNCHANGED <<blobs, nextId>>
           /\ Step(p, StoreFailed(pr))

\* a put that adds no second record for a key
AddOncePerKey(p) ==
  LET pr == proc[p]
      data == docData(pr.file, pr.result.buffer, pr.url, pr.meta)
  IN /\ pr.pc = "add"
     /\ UNCHANGED <<blobs, originals, live, nextId>>
     /\ \/ /\ docs' = IF MatchBy("originalUrl", data.originalUrl) = {}
                      THEN docs \cup {data} ELSE docs
           /\ \E inp \in (IF pr.kind = "batch" THEN Inputs(pr) ELSE {Null}) :
                Step(p, Stored(IF pr.kind = "batch" THEN Reveal(pr, inp) ELSE pr,
                               storedDescriptor(pr.file, pr.meta)))
        \/ /\ UNCHANGED docs
           /\ Step(p, StoreFailed(pr))

\* db.collection('compressedImages').add(docData)
Add(p) ==
  LET pr == proc[p]
  IN /\ pr.pc = "add"
     /\ UNCHANGED <<blobs, originals, live, nextId>>
     /\ \/ /\ docs' = docs \cup {docData(pr.file, pr.result.buffer, pr.url, pr.meta)}
           /\ \E inp \in (IF pr.kind = "batch" THEN Inputs(pr) ELSE {Null}) :
                Step(p, Stored(IF pr.kind = "batch" THEN Reveal(pr, inp) ELSE pr,
                               storedDescriptor(pr.file, pr.meta)))
        \/ /\ UNCHANGED docs
           /\ Step(p, StoreFailed(pr))

----------------------------------------------------------------------------
(* The compression engines, each called for one URL *)

SourceFormat(url) == IF url[1] = "a.jpg" THEN "jpg" ELSE "png"

\* a failed item ends the batch
YieldedHaltsOnFailure(pr, result) ==
  IF Get(result, "success", FALSE) /\ Has(result, "buffer")
  THEN [pr EXCEPT !.pc = "save", !.result = result,
                  !.meta = BatchMetadata(pr, result)]
  ELSE LET pushed == [pr EXCEPT !.results =
                        Append(pr.results,
                               [url |-> pr.url, success |-> FALSE,
                                error |-> "Compression failed",
                                strategy |-> pr.strategy])]
       IN Respond(pushed, CompleteResponse(pushed.results, pr.strategy))

\* yield [result] of a generator that is run to its end: the result is handed
\* out and the for loop of the generator goes on to its next URL, or returns
Resumed(pr, result) ==
  LET yielded == [pr EXCEPT !.results = Append(pr.results, result)]
  IN IF pr.i = Len(pr.urls)
     THEN Respond(yielded, [yields |-> yielded.results])
     ELSE [ItemLocals(yielded) EXCEPT !.pc = "fetch",
             !.i = pr.i + 1, !.url = pr.urls[pr.i + 1]]

\* the value the generator yields: to the batch loop, which takes the first
\* value only, or to a caller that runs the generator to its end
Yielded(pr, result) ==
  IF pr.kind = "generator"
  THEN Resumed(pr, result)
  ELSE IF Get(result, "success", FALSE) /\ Has(result, "buffer")
  THEN [pr EXCEPT !.pc = "save", !.result = result,
                  !.meta = BatchMetadata(pr, result)]
  ELSE Advance(pr, [url |-> pr.url, success |-> FALSE,
                    error |-> "Compression failed", strategy |-> pr.strategy])

SharpFailure(pr, message) ==
  [success |-> FALSE, error |-> message, url |-> pr.url, strategy |-> "sharp"]

\* engine A keeps the encoder's output whatever its size
SharpSuccess(pr, compressedSize, format) ==
  [success |-> TRUE,
   originalSize |-> pr.src,
   compressedSize |-> compressedSize,
   savings |-> Savings(pr.src, compressedSize),
   buffer |-> [bytes |-> format, length |-> compressedSize],
   format |-> format,
   strategy |-> "sharp"]

\* engine B, compressImage's failure seen through compressMultipleImages:
\* the fields that are undefined are dropped, format falls back to 'webp'
TinifyFailure(pr) ==
  [url |-> pr.url, success |-> FALSE, format |-> "webp"]

TinifySuccess(pr, compressedSize, format) ==
  [url |-> pr.url,
   success |-> TRUE,
   originalSize |-> pr.src,
   compressedSize |-> compressedSize,
   savings |-> Savings(pr.src, compressedSize),
   buffer |-> [bytes |-> format, length |-> compressedSize],
   format |-> normalizedFormat(format)]

\* fetch(url) of either engine
Fetch(p) ==
  LET pr == proc[p]
  IN /\ pr.pc = "fetch"
     /\ UNCHANGED <<docs, blobs, originals, live, nextId>>
     /\ \/ Step(p, [pr EXCEPT !.src = SourceSize(pr.url),
                     !.pc = IF pr.strategy = "sharp"
                            THEN "sharp_metadata" ELSE "tinify_convert"])
        \/ Step(p, Yielded(pr, IF pr.strategy = "sharp"
                               THEN SharpFailure(pr, "Failed to fetch image")
                               ELSE TinifyFailure(pr)))

\* sharpInstance.metadata()
SharpMetadata(p) ==
  LET pr == proc[p]
  IN /\ pr.pc = "sharp_metadata"
     /\ UNCHANGED <<docs, blobs, originals, live, nextId>>
     /\ \/ Step(p, [pr EXCEPT !.pc = "sharp_webp"])
        \/ Step(p, Yielded(pr, SharpFailure(pr, "unsupported image format")))

\* sharpInstance.webp({...}).toBuffer()
SharpWebp(p) ==
  LET pr == proc[p]
  IN /\ pr.pc = "sharp_webp"
     /\ UNCHANGED <<docs, blobs, originals, live, nextId>>
     /\ \/ \E size \in EncodedSizes(pr.src) : Step(p, Yielded(pr, SharpSuccess(pr, size, "webp")))
        \/ Step(p, [pr EXCEPT !.pc = "sharp_png"])

\* the fallback: sharpInstance.png({...}).toBuffer()
SharpPng(p) ==
  LET pr == proc[p]
  IN /\ pr.pc = "sharp_png"
     /\ UNCHANGED <<docs, blobs, originals, live, nextId>>
     /\ \/ \E size \in EncodedSizes(pr.src) :
             Step(p, Yielded(pr, Spread(SharpSuccess(pr, size, "png"),
                                       [warning |-> "Used PNG fallback"])))
        \/ Step(p, Yielded(pr, SharpFailure(pr, "png encode failed")))

\* tinify: converted.result(), result.toBuffer(); the service answers only
\* a client that presents an API key
TinifyConvert(p) ==
  LET pr == proc[p]
  IN /\ pr.pc = "tinify_convert"
     /\ UNCHANGED <<docs, blobs, originals, live, nextId>>
     /\ \/ /\ pr.tinifyKey
           /\ \E size \in EncodedSizes(pr.src) :
                Step(p, Yielded(pr, TinifySuccess(pr, size, SourceFormat(pr.url))))
        \/ Step(p, Yielded(pr, TinifyFailure(pr)))


----------------------------------------------------------------------------
(* The origin swap of the batch-compress action *)

SwapFailed(pr, message) ==
  Advance(pr, Spread(pr.push, [shopify |-> [replaced |-> FALSE, error |-> message]]))

SwapDone(pr) ==
  Advance(pr, Spread(pr.push,
    [shopify |-> [productId |-> At(pr.productIds, pr.i),
                  newImageId |-> "new",
                  oldImageId |-> At(pr.imageIds, pr.i),
                  replaced |-> TRUE]]))

\* the old image is deleted whatever the create returned
CreateIgnoresFailure(p) ==
  LET pr == proc[p]
      logged(ok) == [pr EXCEPT !.calls = Append(@, [op |-> "create", id |-> "", ok |-> ok])]
  IN /\ pr.pc = "create"
     /\ UNCHANGED <<docs, blobs, originals, live, nextId>>
     /\ \E ok \in BOOLEAN :
          IF At(pr.imageIds, pr.i) # ""
          THEN Step(p, [logged(ok) EXCEPT !.pc = "delete"])
          ELSE Step(p, SwapDone(logged(ok)))

\* POST products/{productId}/images.json with src = storedImage.url
Create(p) ==
  LET pr == proc[p]
      logged(ok) == [pr EXCEPT !.calls = Append(@, [op |-> "create", id |-> "", ok |-> ok])]
  IN /\ pr.pc = "create"
     /\ UNCHANGED <<docs, blobs, originals, live, nextId>>
     /\ \/ IF At(pr.imageIds, pr.i) # ""
           THEN Step(p, [logged(TRUE) EXCEPT !.pc = "delete"])
           ELSE Step(p, SwapDone(logged(TRUE)))
        \/ Step(p, SwapFailed(logged(FALSE), "Create image failed"))

\* DELETE products/{productId}/images/{oldImageId}.json: the response is not read
Delete(p) ==
  LET pr == proc[p]
      oldImageId == At(pr.imageIds, pr.i)
      logged(ok) == [pr EXCEPT !.calls = Append(@, [op |-> "delete", id |-> oldImageId, ok |-> ok])]
  IN /\ pr.pc = "delete"
     /\ UNCHANGED <<docs, blobs, originals, nextId>>
     /\ \/ /\ live' = live \ {oldImageId}       \* deleted
           /\ Step(p, SwapDone(logged(TRUE)))
        \/ /\ UNCHANGED live                    \* rejected by the platform
           /\ Step(p, SwapDone(logged(FALSE)))
        \/ /\ UNCHANGED live                    \* the request threw
           /\ Step(p, SwapFailed(logged(FALSE), "fetch failed"))

----------------------------------------------------------------------------
(* The batch-compress action: the request up to the first cache check *)

\* formData.getAll('urls').filter(url => url)
NonEmpty(urls) == SelectSeq(urls, LAMBDA u : u # <<>>)

SeqsUpTo(S, n) == UNION {[1..m -> S] : m \in 0..n}

\* formData.get('strategy') || 'tinify'
strategyOf(submitted) == IF submitted = "" THEN "tinify" ELSE submitted

\* the request of a batch, its session and identifiers given by base, while
\* the uuids handed out stay within ids
BeginBatchWithin(p, urls, submitted, tinifyKey, base, ids) ==
  LET imageUrls == NonEmpty(urls)
      strategy == strategyOf(submitted)
      pr == [base EXCEPT !.kind = "batch", !.urls = imageUrls,
               !.strategy = strategy, !.tinifyKey = tinifyKey]
  IN /\ proc[p].pc = "idle"
     /\ nextId + Len(imageUrls) - 1 <= ids
     /\ UNCHANGED <<docs, blobs, originals, live, nextId>>
     /\ IF Len(imageUrls) = 0
        THEN Step(p, Respond(pr, [type |-> "error", status |-> 400,
                                  error |-> "No image URLs provided"]))
        ELSE IF strategy = "tinify" /\ ~tinifyKey
        THEN Step(p, Respond(pr, [type |-> "error", status |-> 500,
                                  error |-> "Tinify API key is not set"]))
        ELSE Step(p, [pr EXCEPT !.pc = "fsi_query", !.i = 1, !.url = imageUrls[1]])

BeginBatch(p, urls, submitted, tinifyKey, base) ==
  BeginBatchWithin(p, urls, submitted, tinifyKey, base, MaxIds)

\* the batch starts without looking at the API key
StartBatchSkipsKeyCheck(p, urls, strategy, tinifyKey) ==
  LET imageUrls == NonEmpty(urls)
      pr == [IdleProc EXCEPT !.kind = "batch", !.urls = imageUrls,
               !.strategy = strategy, !.tinifyKey = tinifyKey]
  IN /\ proc[p].pc = "idle"
     /\ nextId + Len(imageUrls) - 1 <= MaxIds
     /\ UNCHANGED <<docs, blobs, originals, live, nextId>>
     /\ IF Len(imageUrls) = 0
        THEN Step(p, Respond(pr, [type |-> "error", status |-> 400,
                                  error |-> "No image URLs provided"]))
        ELSE Step(p, [pr EXCEPT !.pc = "fsi_query", !.i = 1, !.url = imageUrls[1]])

StartBatch(p, urls, strategy, tinifyKey) ==
  BeginBatch(p, urls, strategy, tinifyKey, IdleProc)

----------------------------------------------------------------------------
(* The revert action *)

\* form.get('productId'), form.get('imageId') and the session of a revert
RevertInputs ==
  {[read |-> "form", hasToken |-> t, productIds |-> <<productId>>,
    imageIds |-> <<imageId>>] :
     t \in BOOLEAN, productId \in ProductIds \cup {""}, imageId \in ImageIds \cup {""}}

RevertedResponse(pr, shopifyResult) ==
  [type |-> "reverted",
   requestedUrl |-> pr.url,
   restoredSize |-> pr.original.size,
   originalUrl |-> pr.original.storedUrl,
   originalSize |-> pr.original.size,
   format |-> pr.original.format,
   shopify |-> shopifyResult]

Reverted(pr, shopifyResult) ==
  Respond(pr, RevertedResponse(pr, shopifyResult))

StartRevert(p, method, url) ==
  LET pr == [IdleProc EXCEPT !.kind = "revert", !.url = url, !.liveAtStart = live]
  IN /\ proc[p].pc = "idle"
     /\ UNCHANGED <<docs, blobs, originals, live, nextId>>
     /\ IF method # "POST"
        THEN Step(p, Respond([pr EXCEPT !.url = <<>>],
                             [error |-> "Method not allowed", status |-> 405]))
        ELSE IF url = <<>>
        THEN Step(p, Respond(pr, [error |-> "url is required", status |-> 400]))
        ELSE Step(p, [pr EXCEPT !.pc = "rv_find"])

\* findOriginalImage(originalUrl), then the branch on the Shopify identifiers
findOriginalImage(originalUrl) ==
  {d \in originals : d.originalUrl = canonical(originalUrl)}

\* a revert that goes on to the origin although the archive has no entry
RevertFindProceedsUnarchived(p) ==
  LET pr == proc[p]
      placeholder == [size |-> 0, storedUrl |-> <<>>, format |-> ""]
      found(original, inp) ==
        LET got == [Reveal(pr, inp) EXCEPT !.original = original]
        IN IF At(got.productIds, 1) # "" /\ got.hasToken
           THEN [got EXCEPT !.pc = "rv_create"]
           ELSE Reverted(got, Null)
  IN /\ pr.pc = "rv_find"
     /\ UNCHANGED <<docs, blobs, originals, live, nextId>>
     /\ \E original \in findOriginalImage(pr.url) \cup {placeholder}, inp \in RevertInputs :
          Step(p, found(original, inp))

RevertFind(p) ==
  LET pr == proc[p]
      notFound == Respond(pr, [error |-> "Original image not found", status |-> 404])
      found(original, inp) ==
        LET got == [Reveal(pr, inp) EXCEPT !.original = original]
        IN IF At(got.productIds, 1) # "" /\ got.hasToken
           THEN [got EXCEPT !.pc = "rv_create"]
           ELSE Reverted(got, Null)
  IN /\ pr.pc = "rv_find"
     /\ UNCHANGED <<docs, blobs, originals, live, nextId>>
     /\ \/ Step(p, notFound)                    \* the query failed: catch, null
        \/ IF findOriginalImage(pr.url) = {}
           THEN Step(p, notFound)
           ELSE \E original \in findOriginalImage(pr.url), inp \in RevertInputs :
                  Step(p, found(original, inp))

RevertSwapFailed(pr, message) ==
  Reverted(pr, [replaced |-> FALSE, error |-> message])
RevertSwapDone(pr) ==
  Reverted(pr, [replaced |-> TRUE, newImageId |-> "new",
                oldImageId |-> At(pr.imageIds, 1)])

\* the delete is issued whatever the create returned
RevertCreateIgnoresFailure(p) ==
  LET pr == proc[p]
      logged(ok) == [pr EXCEPT !.calls = Append(@, [op |-> "create", id |-> "", ok |-> ok])]
  IN /\ pr.pc = "rv_create"
     /\ UNCHANGED <<docs, blobs, originals, live, nextId>>
     /\ \E ok \in BOOLEAN :
          IF At(pr.imageIds, 1) # ""
          THEN Step(p, [logged(ok) EXCEPT !.pc = "rv_delete"])
          ELSE Step(p, RevertSwapDone(logged(ok)))

\* POST products/{productId}/images.json with src = original.storedUrl
RevertCreate(p) ==
  LET pr == proc[p]
      logged(ok) == [pr EXCEPT !.calls = Append(@, [op |-> "create", id |-> "", ok |-> ok])]
  IN /\ pr.pc = "rv_create"
     /\ UNCHANGED <<docs, blobs, originals, live, nextId>>
     /\ \/ IF At(pr.imageIds, 1) # ""
           THEN Step(p, [logged(TRUE) EXCEPT !.pc = "rv_delete"])
           ELSE Step(p, RevertSwapDone(logged(TRUE)))
        \/ Step(p, RevertSwapFailed(logged(FALSE), "create failed"))

\* DELETE products/{productId}/images/{oldImageId}.json
RevertDelete(p) ==
  LET pr == proc[p]
      oldImageId == At(pr.imageIds, 1)
      logged(ok) == [pr EXCEPT !.calls = Append(@, [op |-> "delete", id |-> oldImageId, ok |-> ok])]
  IN /\ pr.pc = "rv_delete"
     /\ UNCHANGED <<docs, blobs, originals, nextId>>
     /\ \/ /\ live' = live \ {oldImageId}
           /\ Step(p, RevertSwapDone(logged(TRUE)))
        \/ /\ UNCHANGED live
           /\ Step(p, RevertSwapDone(logged(FALSE)))
        \/ /\ UNCHANGED live
           /\ Step(p, RevertSwapFailed(logged(FALSE), "fetch failed"))


----------------------------------------------------------------------------
(* storeOriginalImage(imageBuffer, originalUrl, metadata) *)

originalDoc(n, originalUrl, size, format) ==
  [id |-> "orig" \o ToString(n),
   originalUrl |-> originalUrl,
   storedUrl |-> downloadUrl(originalFileName(n, format), n),
   size |-> size,
   format |-> format,
   storageMetadata |-> [storagePath |-> originalFileName(n, format),
                        downloadToken |-> ToString(n)]]

StartArchive(p, url) ==
  /\ proc[p].pc = "idle"
  /\ nextId <= MaxIds
  /\ UNCHANGED <<docs, blobs, originals, live, nextId>>
  /\ Step(p, [IdleProc EXCEPT !.kind = "archive", !.pc = "ar_save", !.url = url,
                !.src = SourceSize(url)])

\* file.save(imageBuffer, ...) under original/
ArchiveSave(p) ==
  LET pr == proc[p]
      format == normalizedFormat(SourceFormat(pr.url))
  IN /\ pr.pc = "ar_save"
     /\ UNCHANGED <<docs, originals, live>>
     /\ \/ /\ blobs' = blobs \cup {originalFileName(nextId, format)}
           /\ nextId' = nextId + 1
           /\ Step(p, [pr EXCEPT !.pc = "ar_add", !.file = nextId])
        \/ /\ UNCHANGED <<blobs, nextId>>
           /\ Step(p, Respond(pr, [error |-> "save failed"]))

\* db.collection('originalImages').add({...})
ArchiveAdd(p) ==
  LET pr == proc[p]
      format == normalizedFormat(SourceFormat(pr.url))
  IN /\ pr.pc = "ar_add"
     /\ UNCHANGED <<docs, blobs, live, nextId>>
     /\ \/ /\ originals' = originals \cup {originalDoc(pr.file, pr.url, pr.src, format)}
           /\ Step(p, Respond(pr,
                         [id |-> "orig" \o ToString(pr.file),
                          url |-> downloadUrl(originalFileName(pr.file, format), pr.file),
                          size |-> pr.src, format |-> format]))
        \/ /\ UNCHANGED originals
           /\ Step(p, Respond(pr, [error |-> "add failed"]))

----------------------------------------------------------------------------
(* Other callers of the cache store *)

\* metadata a caller of storeCompressedImage may attach to the record
PutMetadata ==
  {[shopifyImageId |-> "i1", originalSize |-> 100],
   [shopifyCompressedUrl |-> <<"b.png">>, originalSize |-> 100]}

\* a direct call of storeCompressedImage(buffer, url, metadata)
StartPut(p, url, meta) ==
  /\ proc[p].pc = "idle"
  /\ nextId <= MaxIds
  /\ UNCHANGED <<docs, blobs, originals, live, nextId>>
  /\ Step(p, [IdleProc EXCEPT !.kind = "put", !.pc = "save", !.url = url,
                !.meta = meta,
                !.result = [buffer |-> [bytes |-> "webp", length |-> 50]]])

\* the loader of app.seo-audits: findStoredImage(p.imageUrl, p.imageId)
StartLookup(p, url, imageId) ==
  /\ proc[p].pc = "idle"
  /\ UNCHANGED <<docs, blobs, originals, live, nextId>>
  /\ Step(p, [IdleProc EXCEPT !.kind = "lookup", !.pc = "fsi_query", !.url = url,
                !.imageId = imageId])

\* A record without a recorded storage path, as earlier versions of the store
\* wrote them: with the public URL of the first version ("legacy"), or with a
\* download URL ("nopath").
LegacyRecord(shape, url) ==
  LET fileName == compressedFileName(nextId, "webp")
      doc == [id |-> "doc" \o ToString(nextId),
              originalUrl |-> canonical(url),
              compressedUrl |-> IF shape = "legacy"
                                THEN legacyPublicUrl(fileName)
                                ELSE downloadUrl(fileName, nextId),
              size |-> 50,
              format |-> "webp",
              originalSize |-> SourceSize(url)]
  IN /\ nextId <= MaxIds
     /\ docs' = docs \cup {doc}
     /\ blobs' = blobs \cup {fileName}
     /\ nextId' = nextId + 1
     /\ UNCHANGED <<originals, live, proc, hist>>

\* a blob is deleted out of band
OobDelete(path) ==
  /\ path \in blobs
  /\ blobs' = blobs \ {path}
  /\ hist' = [k \in Keys |-> Null]
  /\ UNCHANGED <<docs, originals, live, nextId, proc>>

\* the response was sent: the handler is gone
Return(p) ==
  /\ proc[p].pc = "done"
  /\ proc' = [proc EXCEPT ![p] = IdleProc]
  /\ UNCHANGED <<docs, blobs, originals, live, nextId, hist>>

----------------------------------------------------------------------------
(* Requests are served one at a time *)

Quiet == \A q \in Procs : proc[q].pc = "idle"

SubmitBatch(p) ==
  /\ Quiet
  /\ \E urls \in SeqsUpTo(SourceUrls, MaxBatch), strategy \in SubmittedStrategies,
        tinifyKey \in BOOLEAN :
       StartBatch(p, urls, strategy, tinifyKey)

SubmitRevert(p) ==
  /\ Quiet
  /\ \E method \in {"POST", "GET"}, url \in SourceUrls \cup {<<>>} :
       StartRevert(p, method, url)

CallArchive(p) == Quiet /\ \E url \in SourceUrls : StartArchive(p, url)
CallPut(p) == Quiet /\ \E url \in PutUrls, meta \in PutMetadata : StartPut(p, url, meta)
CallLookup(p) ==
  /\ Quiet
  /\ \E url \in SourceUrls \cup {d.compressedUrl : d \in docs}, imageId \in ImageIds \cup {""} :
       StartLookup(p, url, imageId)
ImportRecord == Quiet /\ \E shape \in {"legacy", "nopath"}, url \in PutUrls : LegacyRecord(shape, url)
DeleteBlob == \E path \in blobs : OobDelete(path)

Handler(p) ==
  \/ FsiQuery(p) \/ FsiBackfill(p) \/ FsiExists(p) \/ FsiDelete(p)
  \/ Fetch(p) \/ SharpMetadata(p) \/ SharpWebp(p) \/ SharpPng(p) \/ TinifyConvert(p)
  \/ Save(p) \/ Add(p) \/ Create(p) \/ Delete(p)
  \/ RevertFind(p) \/ RevertCreate(p) \/ RevertDelete(p)
  \/ ArchiveSave(p) \/ ArchiveAdd(p)
  \/ Return(p)

Next ==
  \/ \E p \in {"r1"} :
       \/ SubmitBatch(p) \/ SubmitRevert(p)
       \/ CallArchive(p) \/ CallPut(p) \/ CallLookup(p)
       \/ Handler(p)
  \/ ImportRecord
  \/ DeleteBlob

Spec == Init /\ [][Next]_vars

----------------------------------------------------------------------------
(* Requests served concurrently: every handler runs on its own, and the     *)
(* steps of two handlers interleave at their awaits.  The requests are      *)
(* tinify batches of one URL of one image, sent without access token, and   *)
(* direct lookups of that image.                                            *)

RacedUrls == {<<"a.jpg">>, <<"a.jpg", "?", "v=1">>}

\* a session without access token
Tokenless == CHOOSE inp \in SessionInputs : ~inp.hasToken

ConcurrentBatch(p) ==
  \E url \in RacedUrls :
    BeginBatch(p, <<url>>, "tinify", TRUE, Reveal(IdleProc, Tokenless))

ConcurrentLookup(p) == \E url \in RacedUrls : StartLookup(p, url, "")

NextConc ==
  \E p \in Procs :
    \/ ConcurrentBatch(p) \/ ConcurrentLookup(p)
    \/ FsiQuery(p) \/ FsiExists(p) \/ FsiDelete(p)
    \/ Fetch(p) \/ TinifyConvert(p)
    \/ Save(p) \/ Add(p)
    \/ Return(p)

SpecConc == Init /\ [][NextConc]_vars

----------------------------------------------------------------------------
(* A series of requests about one image, served one at a time: its original *)
(* is archived, it is compressed by tinify batches sent without access      *)
(* token, reverted, and its blobs are deleted out of band.                  *)

SeriesBatch(p) ==
  /\ Quiet
  /\ \E urls \in SeqsUpTo(RacedUrls, MaxBatch) :
       BeginBatchWithin(p, urls, "tinify", TRUE, Reveal(IdleProc, Tokenless), MaxIdsSeries)

SeriesArchive(p) == Quiet /\ \E url \in RacedUrls : StartArchive(p, url)

SeriesRevert(p) == Quiet /\ \E url \in RacedUrls : StartRevert(p, "POST", url)

NextSeries ==
  \/ \E p \in {"r1"} :
       \/ SeriesBatch(p) \/ SeriesArchive(p) \/ SeriesRevert(p)
       \/ FsiQuery(p) \/ FsiExists(p) \/ FsiDelete(p)
       \/ Fetch(p) \/ TinifyConvert(p)
       \/ Save(p) \/ Add(p)
       \/ RevertFind(p) \/ RevertCreate(p) \/ RevertDelete(p)
       \/ ArchiveSave(p) \/ ArchiveAdd(p)
       \/ Return(p)
  \/ DeleteBlob

SpecSeries == Init /\ [][NextSeries]_vars

----------------------------------------------------------------------------
(* Batches on their own, each served to its response: every call the action *)
(* awaits returns or fails, and the action is resumed.  The batches are     *)
(* about one image and are sent with or without access token.              *)

\* a session with access token, and identifiers for every item
WithToken ==
  CHOOSE inp \in SessionInputs :
    inp.hasToken /\ Len(inp.productIds) = MaxBatch /\ Len(inp.imageIds) = MaxBatch

ServedBatch(p) ==
  /\ Quiet
  /\ \E urls \in SeqsUpTo(RacedUrls, MaxBatch), strategy \in Strategies,
        inp \in {Tokenless, WithToken} :
       BeginBatch(p, urls, strategy, TRUE, Reveal(IdleProc, inp))

\* the action is resumed after the call it awaited
Resume(p) ==
  \/ FsiQuery(p) \/ FsiExists(p) \/ FsiDelete(p)
  \/ Fetch(p) \/ SharpMetadata(p) \/ SharpWebp(p) \/ SharpPng(p) \/ TinifyConvert(p)
  \/ Save(p) \/ Add(p) \/ Create(p) \/ Delete(p)

NextServed ==
  \E p \in {"r1"} : ServedBatch(p) \/ Resume(p) \/ Return(p)

SpecServed ==
  Init /\ [][NextServed]_vars /\ WF_vars(\E p \in Procs : Resume(p))

----------------------------------------------------------------------------

(* The engines on their own: compressMultipleImages(imageUrls) of either    *)
(* engine, run to its end over a list of URLs.                              *)

StartGenerator(p, urls, strategy, tinifyKey) ==
  LET pr == [IdleProc EXCEPT !.kind = "generator", !.urls = urls,
               !.strategy = strategy, !.tinifyKey = tinifyKey]
  IN /\ proc[p].pc = "idle"
     /\ UNCHANGED <<docs, blobs, originals, live, nextId>>
     /\ IF urls = <<>>
        THEN Step(p, Respond(pr, [yields |-> <<>>]))
        ELSE Step(p, [pr EXCEPT !.pc = "fetch", !.i = 1, !.url = urls[1]])

RunGenerator(p) ==
  \E urls \in SeqsUpTo(SourceUrls, MaxBatch), strategy \in Strategies,
     tinifyKey \in BOOLEAN :
    StartGenerator(p, urls, strategy, tinifyKey)

NextEngine ==
  \E p \in {"r1"} :
    \/ RunGenerator(p)
    \/ Fetch(p) \/ SharpMetadata(p) \/ SharpWebp(p) \/ SharpPng(p) \/ TinifyConvert(p)
    \/ Return(p)

SpecEngine == Init /\ [][NextEngine]_vars

----------------------------------------------------------------------------
(* The properties checked of the model *)

\* the blob a record refers to: the recorded path, or the one its URL yields
BlobOf(d) ==
  IF storagePathOf(d) # <<>>
  THEN storagePathOf(d)
  ELSE IF Has(d, "compressedUrl") THEN derivedStoragePath(d.compressedUrl) ELSE <<>>

\* a direct call of findStoredImage returns in this step
LookupReturns(p) ==
  /\ proc[p].kind = "lookup"
  /\ proc[p].pc # "done"
  /\ proc'[p].pc = "done"

\* the record the returning call had matched (none when every query was empty)
MatchedBy(p) ==
  IF proc[p].pc = "fsi_query"
  THEN {d \in docs : ~IsNull(proc'[p].resp.found) /\ d.id = proc'[p].resp.found.id}
  ELSE {d \in docs : d.id = proc[p].doc.id}

\* the URL a result stands for: its url field; the result pushed after a store
\* failure of engine A has none and carries the submitted URL as compressedUrl
ItemUrl(r) == IF Has(r, "url") THEN r.url ELSE Get(r, "compressedUrl", <<>>)

\* a batch request answered with the complete response
Completed(pr) ==
  pr.kind = "batch" /\ pr.pc = "done" /\ Get(pr.resp, "type", "") = "complete"

IsEngineFailure(r) ==
  ~Get(r, "success", TRUE) /\ Get(r, "error", "") = "Compression failed"
IsStorageFailure(r) == Has(r, "storageError")
IsSuccess(r) == Get(r, "success", FALSE)

\* C1: every successful result of engine A has compressedSize <= originalSize,
\* and when the encode is at least as large as the original the result's buffer
\* is the original bytes and its savings is 0.
C1_SharpNoWorseThanOriginal ==
  \A p \in Procs :
    LET pr == proc[p]
    IN (pr.kind = "batch" /\ pr.strategy = "sharp" /\ pr.pc = "save")
         => /\ pr.result.compressedSize <= pr.result.originalSize
            /\ pr.result.buffer.length >= pr.result.originalSize
                 => /\ pr.result.buffer.bytes = "original"
                    /\ pr.result.savings.num = 0

\* C2: once a compress has stored an artifact for a canonical key, and no blob
\* was deleted out of band since, every later compress result for a URL of
\* that key has fromCache = true and the compressedUrl the first one returned.
C2_CacheIdempotence ==
  [][\A p \in Procs :
       (proc'[p].kind = "batch" /\ Len(proc'[p].results) = Len(proc[p].results) + 1)
         => LET r == proc'[p].results[Len(proc'[p].results)]
                k == canonical(ItemUrl(r))
            IN (k \in Keys /\ ~IsNull(hist[k]))
                 => /\ Get(r, "fromCache", FALSE)
                    /\ Get(r, "compressedUrl", <<>>) = hist[k].compressedUrl]_vars

\* C3: when findStoredImage has matched a record whose blob is absent, it
\* returns null and deletes that record: the collection has exactly one record
\* fewer.
C3_SelfHealing ==
  [][\A p \in Procs :
       LookupReturns(p)
         => \A d \in MatchedBy(p) :
              BlobOf(d) \notin blobs
                => /\ IsNull(proc'[p].resp.found)
                   /\ d \notin docs'
                   /\ Cardinality(docs') = Cardinality(docs) - 1]_vars

\* C4: findStoredImage never returns a hit for a record whose blob is absent
\* from the bucket when it returns, whichever query matched the record.
C4_NoHitWithoutBlob ==
  [][\A p \in Procs :
       (LookupReturns(p) /\ ~IsNull(proc'[p].resp.found))
         => BlobOf(proc'[p].resp.found) \in blobs]_vars

\* C5: a batch of two URLs, one failing in the engine (an unreachable URL) and
\* the other compressed and stored, is answered with two results of which
\* exactly one has success true, and with the aggregates of that one result.
C5_MixedBatch ==
  \A p \in Procs :
    LET pr == proc[p]
        stored == {i \in 1..Len(pr.results) : IsStoredResult(pr.results[i])}
        failed == {i \in 1..Len(pr.results) : IsEngineFailure(pr.results[i])}
    IN (Completed(pr) /\ Len(pr.urls) = 2
          /\ Cardinality(stored) = 1 /\ Cardinality(failed) = 1)
         => LET r == pr.results[CHOOSE i \in stored : TRUE]
            IN /\ Len(pr.resp.results) = 2
               /\ Cardinality({i \in 1..Len(pr.resp.results) : IsSuccess(pr.resp.results[i])}) = 1
               /\ pr.resp.totalSuccessful = 1
               /\ pr.resp.totalOriginalSize = r.originalSize
               /\ pr.resp.totalCompressedSize = r.compressedSize
               /\ pr.resp.totalSavings = RoundedPercent(r.originalSize, r.compressedSize)

\* C6: a batch that passes the preconditions is answered with exactly one
\* result per submitted URL, the i-th result standing for the i-th URL,
\* whichever items failed.
C6_FailedItemNeverHalts ==
  \A p \in Procs :
    LET pr == proc[p]
    IN Completed(pr)
         => /\ Len(pr.resp.results) = Len(pr.urls)
            /\ \A i \in 1..Len(pr.urls) : ItemUrl(pr.resp.results[i]) = pr.urls[i]

\* C6 witness: a complete response for two URLs whose first item failed
C6_Witness ==
  \E p \in Procs :
    /\ Completed(proc[p])
    /\ Len(proc[p].urls) = 2
    /\ IsEngineFailure(proc[p].resp.results[1])
    /\ IsStoredResult(proc[p].resp.results[2])

\* C7: after a compress of a URL has completed, a revert of that URL succeeds
\* and returns as restoredSize the originalSize the compress recorded.
C7_RevertRoundTrip ==
  \A p \in Procs :
    LET pr == proc[p]
    IN (pr.kind = "revert" /\ pr.pc = "done" /\ pr.url # <<>>
          /\ ~IsNull(hist[canonical(pr.url)]))
         => /\ Get(pr.resp, "type", "") = "reverted"
            /\ pr.resp.restoredSize = hist[canonical(pr.url)].originalSize

\* C8: whenever the batch action performs an origin swap for an item, the
\* original archive holds an entry for the item's canonical key, and the
\* archive never holds two entries for one key.
C8_ArchivedBeforeSwap ==
  /\ \A p \in Procs :
       (proc[p].kind = "batch" /\ proc[p].pc \in {"create", "delete"})
         => \E o \in originals : canonical(o.originalUrl) = canonical(proc[p].url)
  /\ \A k \in Keys :
       Cardinality({o \in originals : canonical(o.originalUrl) = k}) <= 1

C10_CreateBeforeDelete ==
  \A p \in Procs :
    LET pr == proc[p]
        ops == 1..Len(pr.calls)
    IN pr.kind = "revert"
         => /\ \A j \in ops :
                 pr.calls[j].op = "delete"
                   => \E i \in 1..(j - 1) : pr.calls[i].op = "create" /\ pr.calls[i].ok
            /\ (\E i \in ops : pr.calls[i].op = "create" /\ ~pr.calls[i].ok)
                 => /\ \A j \in ops : pr.calls[j].op # "delete"
                    /\ live = pr.liveAtStart

\* C10 witness: a revert that created the restored image, then deleted the
\* image that was live
C10_Witness ==
  \E p \in Procs :
    /\ proc[p].kind = "revert"
    /\ proc[p].pc = "done"
    /\ Len(proc[p].calls) = 2
    /\ proc[p].calls[1] = [op |-> "create", id |-> "", ok |-> TRUE]
    /\ proc[p].calls[2] = [op |-> "delete", id |-> "i1", ok |-> TRUE]
    /\ "i1" \in proc[p].liveAtStart
    /\ "i1" \notin live

\* C11: in the origin swap of the batch action, every delete of an old image
\* directly follows the create of the same item, and that create succeeded.
C11_SwapCreateBeforeDelete ==
  \A p \in Procs :
    LET pr == proc[p]
    IN pr.kind = "batch"
         => \A j \in 1..Len(pr.calls) :
              pr.calls[j].op = "delete"
                => /\ j > 1
                   /\ pr.calls[j - 1].op = "create"
                   /\ pr.calls[j - 1].ok

\* C11 witness: a batch whose swap created the new image, then deleted the old
C11_Witness ==
  \E p \in Procs :
    /\ Completed(proc[p])
    /\ proc[p].calls = <<[op |-> "create", id |-> "", ok |-> TRUE],
                         [op |-> "delete", id |-> "i1", ok |-> TRUE]>>
    /\ "i1" \notin live

\* the archive holds an entry for the canonical key of a URL
Archived(url) == \E o \in originals : canonical(o.originalUrl) = canonical(url)

\* C12: when the archive holds no entry for canonical(url), the lookup step of
\* a revert answers 404 "Original image not found", having made no call to the
\* origin, and changes no store.
C12_RevertNotFound ==
  [][\A p \in Procs :
       (proc[p].pc = "rv_find" /\ ~Archived(proc[p].url) /\ proc'[p] # proc[p])
         => /\ proc'[p].pc = "done"
            /\ proc'[p].resp = [error |-> "Original image not found", status |-> 404]
            /\ proc'[p].calls = <<>>
            /\ UNCHANGED <<docs, blobs, originals, live>>]_vars

\* C12 witness: a revert answered 404 while the archive has no entry for its URL
C12_Witness ==
  \E p \in Procs :
    /\ proc[p].kind = "revert"
    /\ proc[p].pc = "done"
    /\ proc[p].url # <<>>
    /\ ~Archived(proc[p].url)
    /\ Get(proc[p].resp, "status", 0) = 404

\* a call to the origin failed during the request
OriginCallFailed(pr) == \E i \in 1..Len(pr.calls) : ~pr.calls[i].ok

\* C13: a revert whose origin create or delete failed still answers with the
\* restored metadata (restored URL, restoredSize, format), the swap reported
\* as not replaced with its error attached, never with the request's error.
C13_RevertSwapBestEffort ==
  \A p \in Procs :
    LET pr == proc[p]
    IN (pr.kind = "revert" /\ pr.pc = "done" /\ OriginCallFailed(pr))
         => /\ Get(pr.resp, "type", "") = "reverted"
            /\ Has(pr.resp, "originalUrl")
            /\ Has(pr.resp, "restoredSize")
            /\ Has(pr.resp, "format")
            /\ ~pr.resp.shopify.replaced
            /\ Has(pr.resp.shopify, "error")

\* the step of a handler in which a call to the origin failed
OriginCallFails(p) ==
  /\ Len(proc'[p].calls) = Len(proc[p].calls) + 1
  /\ ~proc'[p].calls[Len(proc'[p].calls)].ok

\* C14: when the origin swap of an item fails, the item's result is pushed
\* with the stored artifact's compressedUrl and fromCache false, without an
\* error field, with the swap reported as not replaced and its error, and the
\* batch goes on to the next item (or to the complete response).
C14_SwapFailureKeepsItem ==
  [][\A p \in Procs :
       (proc[p].kind = "batch" /\ proc[p].pc \in {"create", "delete"} /\ OriginCallFails(p))
         => LET old == proc[p]
                new == proc'[p]
                r == new.results[Len(new.results)]
            IN /\ Len(new.results) = Len(old.results) + 1
               /\ r.compressedUrl = old.push.compressedUrl
               /\ ~r.fromCache
               /\ ~Has(r, "error")
               /\ ~r.shopify.replaced
               /\ Has(r.shopify, "error")
               /\ IF old.i < Len(old.urls)
                  THEN new.pc = "fsi_query" /\ new.i = old.i + 1
                  ELSE Completed(new)]_vars

\* C15: a call to the origin (create or delete of an image) is made, by the
\* batch action and by the revert alike, only when the session holds an access
\* token and a product id was supplied for the item.
C15_OriginCallsNeedTokenAndProduct ==
  [][\A p \in Procs :
       Len(proc'[p].calls) > Len(proc[p].calls)
         => /\ proc[p].kind \in {"batch", "revert"}
            /\ proc[p].hasToken
            /\ At(proc[p].productIds, IF proc[p].kind = "batch" THEN proc[p].i ELSE 1) # ""]_vars

\* C15 witness: the batch action has created the new image of an item for
\* which the session holds a token and the request a product id
C15_Witness ==
  \E p \in Procs :
    /\ proc[p].kind = "batch"
    /\ proc[p].pc = "delete"
    /\ proc[p].hasToken
    /\ At(proc[p].productIds, proc[p].i) = "p1"
    /\ Len(proc[p].calls) > 0

\* a batch request that violates a precondition
ViolatesPrecondition(pr) ==
  pr.kind = "batch" /\ (pr.urls = <<>> \/ (pr.strategy = "tinify" /\ ~pr.tinifyKey))

\* C16: a batch with an empty URL list, or with strategy tinify and no API key,
\* is answered in its first step with one error response and no results; no
\* lookup, fetch, encode, store or origin call is made and no store changes.
C16_WholeBatchFailure ==
  [][\A p \in Procs :
       (proc[p].pc = "idle" /\ ViolatesPrecondition(proc'[p]))
         => /\ proc'[p].pc = "done"
            /\ proc'[p].resp.type = "error"
            /\ ~Has(proc'[p].resp, "results")
            /\ proc'[p].results = <<>>
            /\ proc'[p].calls = <<>>
            /\ UNCHANGED <<docs, blobs, originals, live, nextId>>]_vars

\* C16 witness: a tinify batch rejected for the missing API key
C16_Witness ==
  \E p \in Procs :
    /\ ViolatesPrecondition(proc[p])
    /\ proc[p].urls # <<>>
    /\ proc[p].pc = "done"
    /\ proc[p].resp = [type |-> "error", status |-> 500,
                       error |-> "Tinify API key is not set"]

\* the results of the items that were compressed or served from the cache
Compressed(rs) == SelectSeq(rs, LAMBDA r : IsSuccess(r) \/ IsStoredResult(r))

\* C17: the totals of a complete response are sums over the successful
\* results, and totalSavings is 100 * (1 - totalCompressedSize /
\* totalOriginalSize) rounded to two decimals when totalOriginalSize > 0, else
\* 0; two successful items of sizes 100 -> 50 and 200 -> 100 give 50.00.
C17_TotalSavings ==
  \A p \in Procs :
    LET pr == proc[p]
        ok == Compressed(pr.results)
        totalOriginalSize == SumField(ok, "originalSize")
        totalCompressedSize == SumField(ok, "compressedSize")
    IN Completed(pr)
         => /\ pr.resp.totalOriginalSize = totalOriginalSize
            /\ pr.resp.totalCompressedSize = totalCompressedSize
            /\ pr.resp.totalSavings =
                 IF totalOriginalSize > 0
                 THEN RoundedPercent(totalOriginalSize, totalCompressedSize)
                 ELSE 0
            /\ (Len(ok) = 2 /\ Len(pr.results) = 2
                  /\ ok[1].originalSize = 100 /\ ok[1].compressedSize = 50
                  /\ ok[2].originalSize = 200 /\ ok[2].compressedSize = 100)
                 => pr.resp.totalSavings = 5000

\* u + "?x=1"
WithQuery(u) == u \o <<"?", "x=1">>

\* the URLs the model handles: the submitted ones, the empty one and the
\* URLs of the stored artifacts
KnownUrls == SourceUrls \cup {<<>>} \cup {d.compressedUrl : d \in docs}

\* C18: canonical(u + "?x=1") = canonical(u) for every URL u; the key a record
\* is stored under is canonical, and a lookup of u + "?x=1" selects by key the
\* records a lookup of u selects.
C18_CanonicalIgnoresQuery ==
  /\ \A u \in KnownUrls :
       /\ canonical(WithQuery(u)) = canonical(u)
       /\ MatchBy("originalUrl", canonical(WithQuery(u))) = MatchBy("originalUrl", canonical(u))
  /\ \A d \in docs : d.originalUrl = canonical(WithQuery(d.originalUrl))
  /\ \A p \in Procs :
       (proc[p].kind = "batch" /\ proc[p].pc = "add")
         => docData(proc[p].file, proc[p].result.buffer, WithQuery(proc[p].url), proc[p].meta)
              = docData(proc[p].file, proc[p].result.buffer, proc[p].url, proc[p].meta)

\* C18 witness: the artifact of a URL submitted with a query component is
\* recorded under the key of the URL without it
C18_Witness ==
  \E p \in Procs :
    /\ Completed(proc[p])
    /\ proc[p].urls = <<<<"a.jpg", "?", "v=1">>>>
    /\ IsStoredResult(proc[p].results[1])
    /\ \E d \in docs :
         /\ d.originalUrl = <<"a.jpg">>
         /\ d.compressedUrl = proc[p].results[1].compressedUrl

\* the put of a batch item returns its descriptor in this step
PutReturns(p) ==
  /\ proc[p].kind = "batch"
  /\ proc[p].pc = "add"
  /\ \/ proc'[p].pc = "create"
     \/ /\ Len(proc'[p].results) = Len(proc[p].results) + 1
        /\ IsStoredResult(proc'[p].results[Len(proc'[p].results)])

\* the records of one canonical key
RecordsOf(k) == MatchBy("originalUrl", k)

\* C19: nothing keeps two batches from storing for one key: a put that
\* returns has added a record of its own, whether or not the collection
\* already holds a record for the key, so that two batches running at the same
\* time which both missed leave two records for the key.
C19_PutAddsRecord ==
  [][\A p \in Procs :
       PutReturns(p)
         => LET data == docData(proc[p].file, proc[p].result.buffer,
                                proc[p].url, proc[p].meta)
            IN data \notin docs /\ docs' = docs \cup {data}]_vars

\* C19 witness: two batches for one key in flight at once, both past a cache
\* check made while the key had no record: one wrote its blob first and is
\* about to add its record, the other has meanwhile stored its artifact, the
\* only record so far; the pending put adds the second record.
C19_Witness ==
  \E p, q \in Procs :
    /\ proc[p].kind = "batch" /\ proc[p].pc = "add"
    /\ Completed(proc[q])
    /\ IsStoredResult(proc[q].results[1])
    /\ canonical(proc[p].url) = canonical(proc[q].url)
    /\ \E d \in docs :
         /\ docs = {d}
         /\ d.compressedUrl = proc[q].results[1].compressedUrl
         /\ d.originalUrl = canonical(proc[p].url)
         /\ d.id = "doc" \o ToString(proc[p].file + 1)

\* the rank of a record in the order the records were stored
StoredOrder(d) == CHOOSE n \in 0..nextId : d.id = "doc" \o ToString(n)

\* C20: when several records exist for one canonical key, the record a lookup
\* by that key returns is the one stored last.
C20_LatestRecordWins ==
  [][\A p \in Procs :
       (LookupReturns(p) /\ ~IsNull(proc'[p].resp.found)
          /\ proc'[p].resp.found.originalUrl = canonical(proc[p].url))
         => \A d \in RecordsOf(canonical(proc[p].url)) :
              StoredOrder(d) <= StoredOrder(proc'[p].resp.found)]_vars

\* the records the four lookups of findStoredImage(url, imageId) match, in
\* their order: external image id, canonical key, swapped-to URL, own URL
LookupMatches(url, imageId) ==
  <<IF imageId # "" THEN MatchBy("shopifyImageId", imageId) ELSE {},
    MatchBy("originalUrl", canonical(url)),
    MatchBy("shopifyCompressedUrl", canonical(url)),
    MatchBy("compressedUrl", canonical(url))>>

\* the record a direct call of findStoredImage takes in the step of its
\* queries: the one it returns, or the one it goes on to verify
TakenBy(p) ==
  IF proc'[p].pc \in {"fsi_exists", "fsi_backfill", "fsi_delete"}
  THEN {proc'[p].doc}
  ELSE IF proc'[p].pc = "done" /\ ~IsNull(proc'[p].resp.found)
  THEN {d \in docs : d.id = proc'[p].resp.found.id}
  ELSE {}

\* C21: the record findStoredImage takes is one matched by the first of its
\* four lookups (external image id when supplied, canonical key, swapped-to
\* URL, the artifact's own URL) that matches any record: a later lookup is
\* used only when every earlier one found nothing.
C21_LookupPrecedence ==
  [][\A p \in Procs :
       (proc[p].kind = "lookup" /\ proc[p].pc = "fsi_query")
         => LET matches == LookupMatches(proc[p].url, proc[p].imageId)
            IN \A d \in TakenBy(p) :
                 \E n \in 1..4 :
                   /\ d \in matches[n]
                   /\ \A m \in 1..(n - 1) : matches[m] = {}]_vars

\* C21 witness: a lookup by image id has returned the record carrying that
\* id, unverified, while another record holds the canonical key of its URL
C21_Witness ==
  \E p \in Procs :
    /\ proc[p].kind = "lookup"
    /\ proc[p].pc = "done"
    /\ ~IsNull(proc[p].resp.found)
    /\ Has(proc[p].resp.found, "shopifyImageId")
    /\ ~Has(proc[p].resp.found, "url")
    /\ \E d \in MatchBy("originalUrl", canonical(proc[p].url)) :
         d.id # proc[p].resp.found.id

\* a record as storeCompressedImage writes it, its blob in the bucket
StoredArtifact(d) ==
  /\ storagePathOf(d) # <<>>
  /\ Has(d.storageMetadata, "downloadToken")
  /\ d.compressedUrl = downloadUrl(storagePathOf(d), StoredOrder(d))
  /\ storagePathOf(d) \in blobs

\* C22: a lookup that is passed the download URL storeCompressedImage
\* returned for an artifact whose blob exists takes that artifact's record
\* and returns it.
C22_ResubmittedUrlHits ==
  [][\A p \in Procs :
       (proc[p].kind = "lookup" /\ proc[p].imageId = "" /\ proc'[p] # proc[p])
         => \A d \in docs :
              (StoredArtifact(d) /\ d.compressedUrl = proc[p].url)
                => /\ proc[p].pc = "fsi_query" => TakenBy(p) = {d}
                   /\ proc'[p].pc = "done"
                        => /\ ~IsNull(proc'[p].resp.found)
                           /\ proc'[p].resp.found.id = d.id]_vars

\* an identifier list that was supplied with a length other than the URL list's
Misaligned(ids, urls) == Len(ids) # 0 /\ Len(ids) # Len(urls)

\* C23: when the productIds list has a length other than the URL list's, no
\* item of the batch gets an origin swap; when the imageIds list has, no old
\* image is deleted: an identifier is applied only to the URL at its own index.
C23_MisalignedIdsIgnored ==
  \A p \in Procs :
    LET pr == proc[p]
    IN (pr.kind = "batch" /\ pr.read = "form")
         => /\ Misaligned(pr.productIds, pr.urls)
                 => pr.pc \notin {"create", "delete"} /\ pr.calls = <<>>
            /\ Misaligned(pr.imageIds, pr.urls)
                 => /\ pr.pc # "delete"
                    /\ \A j \in 1..Len(pr.calls) : pr.calls[j].op # "delete"

\* the awaits of one loop iteration of the batch action in program order, and
\* the step of the item each belongs to: 1 cache check, 2 fetch, 3 encode,
\* 4 store, 5 origin swap
StepRank ==
  [fsi_query |-> 1, fsi_backfill |-> 2, fsi_exists |-> 3, fsi_delete |-> 4,
   fetch |-> 5, sharp_metadata |-> 6, sharp_webp |-> 7, sharp_png |-> 8,
   tinify_convert |-> 7, save |-> 9, add |-> 10, create |-> 11, delete |-> 12]
ItemStep ==
  [fsi_query |-> 1, fsi_backfill |-> 1, fsi_exists |-> 1, fsi_delete |-> 1,
   fetch |-> 2, sharp_metadata |-> 3, sharp_webp |-> 3, sharp_png |-> 3,
   tinify_convert |-> 3, save |-> 4, add |-> 4, create |-> 5, delete |-> 5]

\* C24: a batch works on one item at a time: while it works on item i it has
\* pushed i - 1 results; every step either goes on within the item, in the
\* order cache check, fetch, encode, store, swap, none of them left out on the
\* way to a later one, or pushes the item's result and only then starts the
\* cache check of item i + 1 (or answers).
C24_ItemsStrictlySequential ==
  [][\A p \in Procs :
       (proc[p].kind = "batch" /\ proc[p].pc \in DOMAIN StepRank /\ proc'[p] # proc[p])
         => LET old == proc[p]
                new == proc'[p]
            IN /\ Len(old.results) = old.i - 1
               /\ \/ /\ new.pc \in DOMAIN StepRank
                     /\ new.i = old.i
                     /\ new.results = old.results
                     /\ StepRank[new.pc] > StepRank[old.pc]
                     /\ ItemStep[new.pc] <= ItemStep[old.pc] + 1
                  \/ /\ Len(new.results) = Len(old.results) + 1
                     /\ SubSeq(new.results, 1, Len(old.results)) = old.results
                     /\ ItemUrl(new.results[Len(new.results)]) = old.urls[old.i]
                     /\ \/ new.pc = "done" /\ old.i = Len(old.urls)
                        \/ /\ new.pc = "fsi_query"
                           /\ new.i = old.i + 1
                           /\ new.url = old.urls[new.i]]_vars

\* C24 witness: the second item of a batch is being stored after the first
\* was compressed, stored and swapped at the origin
C24_Witness ==
  \E p \in Procs :
    /\ proc[p].kind = "batch"
    /\ proc[p].pc = "add"
    /\ proc[p].i = 2
    /\ Len(proc[p].results) = 1
    /\ IsStoredResult(proc[p].results[1])
    /\ Has(proc[p].results[1], "shopify")

\* C25: neither engine throws: its generator yields one result for every URL
\* it is given, and the result of a URL whose fetch, decode or conversion
\* failed has success false and an error field.
C25_EnginesYieldFailures ==
  \A p \in Procs :
    LET pr == proc[p]
    IN pr.kind = "generator"
         => /\ pr.pc = "done"
                 => Has(pr.resp, "yields") /\ Len(pr.resp.yields) = Len(pr.urls)
            /\ \A j \in 1..Len(pr.results) :
                 /\ Has(pr.results[j], "success")
                 /\ ~pr.results[j].success => Has(pr.results[j], "error")

\* the path derived from the URL a record stores, <<>> when there is none
DerivedPathOf(d) ==
  IF Has(d, "compressedUrl") THEN derivedStoragePath(d.compressedUrl) ELSE <<>>

\* the record d with nothing but the storage path p added to its metadata
BackFilled(d, p) ==
  [f \in DOMAIN d \cup {"storageMetadata"} |->
     IF f = "storageMetadata"
     THEN [g \in DOMAIN Get(d, f, Null) \cup {"storagePath"} |->
             IF g = "storagePath" THEN p ELSE d[f][g]]
     ELSE d[f]]

CheckSteps == {"fsi_query", "fsi_backfill", "fsi_exists", "fsi_delete"}

\* the cache check of a batch item returns a hit in this step
CacheHit(p) ==
  /\ proc[p].kind = "batch"
  /\ proc[p].pc \in {"fsi_query", "fsi_exists"}
  /\ proc'[p] # proc[p]
  /\ ~(proc'[p].i = proc[p].i /\ proc'[p].pc \in CheckSteps \cup {"fetch"})

\* C27: in the step in which the cache check of an item returns a hit, the
\* item's result is pushed with fromCache true and the batch is at the next
\* item's cache check or has answered: the item is not fetched, encoded or
\* stored, no origin call is made, and neither the cache store nor the
\* original archive changes.
C27_CacheHitGoesToDone ==
  [][\A p \in Procs :
       LET old == proc[p]
           new == proc'[p]
       IN /\ (old.kind = "batch" /\ old.pc = "fsi_exists" /\ new # old
                /\ new.pc # "fsi_delete")
               => CacheHit(p)
          /\ CacheHit(p)
               => /\ Len(new.results) = Len(old.results) + 1
                  /\ new.results[Len(new.results)].fromCache
                  /\ new.results[Len(new.results)].url = old.url
                  /\ new.pc \in {"fsi_query", "done"}
                  /\ new.pc = "fsi_query" => new.i = old.i + 1
                  /\ new.calls = old.calls
                  /\ UNCHANGED <<docs, blobs, originals, live, nextId>>]_vars

\* C27 witness: a batch answered for its only URL from the cache, having made
\* no origin call
C27_Witness ==
  \E p \in Procs :
    /\ Completed(proc[p])
    /\ Len(proc[p].urls) = 1
    /\ Get(proc[p].results[1], "fromCache", FALSE)
    /\ proc[p].calls = <<>>
    /\ \E d \in docs : d.compressedUrl = proc[p].results[1].compressedUrl

\* the records a step removes from the collection
Removed == {d \in docs : \A e \in docs' : e.id # d.id}

\* C28: a step of findStoredImage removes a record only when the blob the
\* record refers to is not in the bucket, also when the existence check fails.
C28_DeletesOnlyStale ==
  [][\A p \in Procs :
       (proc[p].pc \in CheckSteps /\ proc'[p] # proc[p])
         => \A d \in Removed : BlobOf(d) \notin blobs]_vars

\* the steps of engine B for an item of a batch
TinifyRuns(pr) ==
  /\ pr.kind = "batch"
  /\ pr.strategy # "sharp"
  /\ pr.pc \in {"fetch", "tinify_convert"}

\* C29: whatever strategy value was submitted, engine B works on an item of a
\* batch only when the Tinify API key is configured: without the key the
\* batch is rejected before its first item.
C29_TinifyNeedsKey ==
  \A p \in Procs : TinifyRuns(proc[p]) => proc[p].tinifyKey

\* C30: every result of a complete response carries, as its url, the
\* submitted URL of the item it stands for, on every path and for both
\* strategies.
C30_EveryResultCarriesUrl ==
  \A p \in Procs :
    LET pr == proc[p]
    IN Completed(pr)
         => \A i \in 1..Len(pr.resp.results) :
              /\ Has(pr.resp.results[i], "url")
              /\ pr.resp.results[i].url = pr.urls[i]

\* the steps of the engines after the fetch
EncodeSteps == {"sharp_metadata", "sharp_webp", "sharp_png", "tinify_convert"}

\* C31: no step of an item is made twice: while a batch stays at an item it
\* never starts the lookup again, starts the fetch only out of the lookup, the
\* engine's encode only out of the fetch, each encoder once, the put only out
\* of the encode and its metadata write only out of its blob write, whatever
\* the outcome of a step; and the batch never returns to an earlier item.
C31_NoRetries ==
  [][\A p \in Procs :
       LET old == proc[p]
           new == proc'[p]
       IN (old.kind = "batch" /\ old.pc \in DOMAIN StepRank /\ new # old
             /\ new.pc \in DOMAIN StepRank)
            => IF new.i = old.i
               THEN /\ new.pc # old.pc
                    /\ new.pc # "fsi_query"
                    /\ new.pc = "fetch" => old.pc \in CheckSteps
                    /\ new.pc \in {"sharp_metadata", "tinify_convert"} => old.pc = "fetch"
                    /\ new.pc = "sharp_webp" => old.pc = "sharp_metadata"
                    /\ new.pc = "sharp_png" => old.pc = "sharp_webp"
                    /\ new.pc = "save" => old.pc \in EncodeSteps
                    /\ new.pc = "add" => old.pc = "save"
               ELSE new.i = old.i + 1 /\ new.pc = "fsi_query"]_vars

\* C31 witness: a batch answered for an item whose put failed at the metadata
\* write, the blob written once and no record added
C31_Witness ==
  \E p \in Procs :
    /\ Completed(proc[p])
    /\ Len(proc[p].urls) = 1
    /\ IsStorageFailure(proc[p].results[1])
    /\ Cardinality(blobs) = 1
    /\ docs = {}

\* the records the batch action stored for a canonical key
BatchRecordsOf(k) == {d \in RecordsOf(k) : Has(d, "compressionStrategy")}

\* C32: with requests served one at a time, the batch action leaves at most
\* one record per canonical key in every state, also after a lookup that
\* failed with a persistence error.
C32_OneRecordPerKey ==
  \A k \in Keys : Cardinality(BatchRecordsOf(k)) <= 1

\* storeCompressedImage fails in this step
PutFails(p) ==
  /\ proc[p].pc \in {"save", "add"}
  /\ proc'[p] # proc[p]
  /\ proc'[p].pc # "add"
  /\ docs' = docs
  /\ proc[p].pc = "save" => blobs' = blobs

\* the blob the put of a handler has written
WrittenBy(pr) == compressedFileName(pr.file, storedFormat(pr.meta))

\* C33: when storeCompressedImage fails, at its blob write or at its metadata
\* write, it leaves neither a new record nor a new blob: the blob it wrote is
\* not in the bucket, and every blob under compressed/ that remains is
\* referred to by a record as it was before the put.
C33_PutAllOrNothing ==
  [][\A p \in Procs :
       PutFails(p)
         => /\ docs' = docs
            /\ proc[p].pc = "add" => WrittenBy(proc[p]) \notin blobs'
            /\ \A b \in blobs' : \E d \in docs' : BlobOf(d) = b]_vars

\* C34: with puts and lookups interleaved, a record is never in the
\* collection without its blob in the bucket, a lookup that verifies a record
\* finds the blob, and no step of a lookup removes a record.
C34_LookupNeverDeletesFresh ==
  [][\A p \in Procs :
       /\ \A d \in docs' : BlobOf(d) \in blobs'
       /\ proc'[p].pc = "fsi_exists" => proc'[p].path \in blobs'
       /\ (proc[p].pc \in CheckSteps /\ proc'[p] # proc[p])
            => \A d \in docs : \E e \in docs' : e.id = d.id]_vars

\* the steps of an origin swap, of the batch action and of the revert
SwapSteps == {"create", "delete", "rv_create", "rv_delete"}

\* the swap report a handler has just produced: the shopify field of the
\* result it pushed, or of its response
SwapReport(pr) ==
  IF pr.kind = "batch"
  THEN pr.results[Len(pr.results)].shopify
  ELSE pr.resp.shopify

\* C35: the step that ends an origin swap, in the batch action and in the
\* revert, reports replaced true only if its call to the origin succeeded
\* and, when it was the delete of an old image, that image is no longer live
\* at the origin; a rejected delete is reported with replaced false.
C35_ReplacedMeansSwapped ==
  [][\A p \in Procs :
       LET old == proc[p]
           new == proc'[p]
       IN (old.pc \in SwapSteps /\ new # old /\ new.pc \notin SwapSteps)
            => (SwapReport(new).replaced
                  => /\ new.calls[Len(new.calls)].ok
                     /\ old.pc \in {"delete", "rv_delete"}
                          => new.calls[Len(new.calls)].id \notin live')]_vars

\* a call of storeOriginalImage has returned its descriptor
ArchiveStored(pr) == pr.kind = "archive" /\ pr.pc = "done" /\ Has(pr.resp, "id")

\* C36: after storeOriginalImage(buffer, u) has succeeded, for a URL u with or
\* without a query component, findOriginalImage(u) finds the entry that was
\* stored, its size the length of the buffer.
C36_ArchiveRoundTrip ==
  \A p \in Procs :
    ArchiveStored(proc[p])
      => \E o \in findOriginalImage(proc[p].url) :
           /\ o.id = proc[p].resp.id
           /\ o.size = SourceSize(proc[p].url)

\* the batch of a handler pushes the result of an item in this step
Pushes(p) ==
  /\ proc'[p].kind = "batch"
  /\ Len(proc'[p].results) = Len(proc[p].results) + 1

\* C37: no step of a revert changes the cache store or the original archive,
\* and once a revert of a URL has succeeded after a compress stored its
\* artifact, with no blob deleted since, the next compress of the URL is
\* answered from the cache with the compressedUrl of that artifact.
C37_RevertKeepsCache ==
  [][\A p \in Procs :
       /\ ((proc[p].kind = "revert" \/ proc'[p].kind = "revert") /\ proc'[p] # proc[p])
            => UNCHANGED <<docs, blobs, originals>>
       /\ Pushes(p)
            => LET r == proc'[p].results[Len(proc'[p].results)]
                   k == canonical(ItemUrl(r))
               IN (k \in Keys /\ ~IsNull(hist[k]) /\ hist[k].reverted)
                    => /\ Get(r, "fromCache", FALSE)
                       /\ Get(r, "compressedUrl", <<>>) = hist[k].compressedUrl]_vars

\* C38: a compress that finds the record of a key whose blob is gone deletes
\* the record and goes on as a miss; the artifact it then stores has a new
\* compressedUrl; and from then on, with no blob deleted, every compress of
\* the key is answered from the cache with that compressedUrl and the key has
\* exactly one record.
C38_RecoveryAfterStaleMiss ==
  [][\A p \in Procs :
       /\ (proc[p].kind = "batch" /\ proc[p].pc = "fsi_exists"
             /\ proc[p].path \notin blobs /\ proc'[p] # proc[p])
            => /\ proc'[p].pc = "fsi_delete"
               /\ proc'[p].i = proc[p].i
       /\ (proc[p].kind = "batch" /\ proc[p].pc = "fsi_delete" /\ proc'[p] # proc[p])
            => /\ proc'[p].pc = "fetch"
               /\ proc'[p].i = proc[p].i
               /\ proc[p].doc \notin docs'
       /\ Pushes(p)
            => LET r == proc'[p].results[Len(proc'[p].results)]
                   k == canonical(ItemUrl(r))
               IN /\ (IsStoredResult(r) /\ AfterStaleMiss(proc[p]))
                       => /\ ~Get(r, "fromCache", FALSE)
                          /\ r.compressedUrl # proc[p].doc.compressedUrl
                  /\ (k \in Keys /\ ~IsNull(hist[k]) /\ hist[k].recovered)
                       => /\ Get(r, "fromCache", FALSE)
                          /\ Get(r, "compressedUrl", <<>>) = hist[k].compressedUrl
                          /\ Cardinality(RecordsOf(k)) = 1]_vars

\* C39: while every awaited call returns or fails, a batch in flight leads to
\* its response, the complete response with one result for every submitted
\* URL; and a request answered is answered once: the response stays as it is
\* until the handler is gone.
C39_BatchTerminates ==
  /\ \A p \in Procs :
       (proc[p].kind = "batch" /\ proc[p].pc # "done")
         ~> (/\ proc[p].kind = "batch" /\ proc[p].pc = "done"
             /\ Get(proc[p].resp, "type", "") \in {"complete", "error"}
             /\ Completed(proc[p])
                  => /\ Len(proc[p].resp.results) = Len(proc[p].urls)
                     /\ \A i \in 1..Len(proc[p].urls) :
                          ItemUrl(proc[p].resp.results[i]) = proc[p].urls[i])
  /\ [][\A p \in Procs :
          proc[p].pc = "done"
            => \/ proc'[p] = proc[p]
               \/ proc'[p] = IdleProc]_vars

\* a batch of two URLs was answered with the complete response, the first
\* item a failure and the second stored
C39_Witness ==
  \E p \in Procs :
    /\ Completed(proc[p])
    /\ Len(proc[p].urls) = 2
    /\ Len(proc[p].resp.results) = 2
    /\ ~Get(proc[p].resp.results[1], "success", TRUE)
    /\ IsStoredResult(proc[p].resp.results[2])

====
